---- MODULE Spec2Model ----
(***************************************************************************)
(* A model of github.com/xrjr/otp: the HOTP engine (hotp.go), the TOTP     *)
(* engine (totp.go) and the Key URI codec (key.go).                        *)
(*                                                                         *)
(* All three are pure functions, so each becomes an operator that is       *)
(* computed the way the Go code computes it, and a specification draws the *)
(* arguments of one call in Init and applies the function in its action.   *)
(*   SpecOTP    : one call of HOTP, TOTP, timePeriodCount or               *)
(*                dynamicTruncation.                                       *)
(*   Spec       : ParseURI(uri), then Key.URI() on the key it returned,    *)
(*                then ParseURI on the text Key.URI() produced.            *)
(*   SpecURI    : Key.URI() on a key the caller built, then ParseURI; or a *)
(*                code computed with the options of such a key.            *)
(*   SpecShared : calls running concurrently, each a sequence of steps.    *)
(* A Go panic (a run-time abort) is the outcome pc = "panic".              *)
(***************************************************************************)
EXTENDS Integers, Sequences, FiniteSets, TLC

VARIABLES
    pc,        \* "start", then the position reached: "done", "panic", ...
    call,      \* SpecOTP: the call's arguments [fn, key, counter, t, opts]
    ret,       \* SpecOTP: what the call returned [T, counter, code]
    salt,      \* SpecOTP: which keyed hash the environment provides
    uri,       \* Spec: the text handed to ParseURI
    parsed,    \* Spec: ParseURI(uri) = [key, err]
    encoded,   \* Spec: parsed.key.URI() = [uri, err]
    reparsed,  \* Spec: ParseURI(encoded.uri) = [key, err]
    tables,    \* the package's variables: the two algorithm lookup tables
    secret,    \* SpecShared: the bytes of the secret the callers share
    local      \* SpecShared: each call's local variables between its steps

vars == <<pc, call, ret, salt, uri, parsed, encoded, reparsed, tables, secret, local>>

\* What concurrent calls share: the lookup tables and the secret's bytes.
shared == <<tables, secret>>

(***************************************************************************)
(* Bounds of the model.                                                    *)
(***************************************************************************)
MaxTime    == 61    \* times (Unix seconds) range over -MaxTime..MaxTime
MaxCounter == 10    \* HOTP counters range over -2..MaxCounter
MaxDigits  == 65    \* HOTP digit counts range over 0..MaxDigits
MaxSalt    == 1     \* keyed hashes the environment may provide: 0..MaxSalt

None == "none"

(***************************************************************************)
(* Go integer arithmetic.                                                  *)
(***************************************************************************)
Abs(a) == IF a < 0 THEN -a ELSE a

\* Go's / on integers truncates toward zero (TLA+'s \div rounds down).
GoDiv(a, b) ==
    IF (a >= 0) = (b > 0) THEN Abs(a) \div Abs(b) ELSE -(Abs(a) \div Abs(b))

\* A uint (64 bits wide) as four 16-bit limbs, least significant first.
Limb == 2^16

UintOne == <<1, 0, 0, 0>>

UintZero == <<0, 0, 0, 0>>

\* res *= 10 in a uint: the product wraps modulo 2^64 (the carry out of the
\* top limb is dropped).
UintMul10(w) ==
    LET p1 == w[1] * 10
        p2 == w[2] * 10 + (p1 \div Limb)
        p3 == w[3] * 10 + (p2 \div Limb)
        p4 == w[4] * 10 + (p3 \div Limb)
    IN  <<p1 % Limb, p2 % Limb, p3 % Limb, p4 % Limb>>

\* v % w for a v below 2^31 and a uint w # 0.
UintMod(v, w) ==
    IF w[4] # 0 \/ w[3] # 0 \/ w[2] >= 2^15
    THEN v
    ELSE v % (w[2] * Limb + w[1])

(***************************************************************************)
(* hotp.go                                                                 *)
(***************************************************************************)
DefaultDigits == 6

\* The hash constructors a caller can put in HOTPOptions.Algorithm; "nil" is
\* the unset field.
HashFuncs == {"nil", "SHA1", "SHA256", "SHA512"}

\* hash.Hash.Size() of each constructor, in bytes.
HashSize(hashFunc) ==
    CASE hashFunc = "SHA1"   -> 20
      [] hashFunc = "SHA256" -> 32
      [] hashFunc = "SHA512" -> 64

\* What calling the constructor does: sha1.New and the New of a crypto.Hash
\* whose package is linked in (key.go imports sha1, sha256 and sha512)
\* return a hash; the New of crypto.Hash(0), written "0", aborts ("requested
\* hash function #0 is unavailable").
HashAvailable(hashFunc) == hashFunc \in {"SHA1", "SHA256", "SHA512"}

\* binary.BigEndian.PutUint64(buf, uint64(counter)): the two's complement
\* pattern of the counter, most significant byte first.
PutUint64(counter) ==
    [i \in 1..8 |->
        IF i <= 4
        THEN IF counter < 0 THEN 255 ELSE 0
        ELSE (counter \div (256 ^ (8 - i))) % 256]

hotpSecret == <<49, 50, 51, 52, 53, 54, 55, 56, 57, 48,
                49, 50, 51, 52, 53, 54, 55, 56, 57, 48>>

\* The HMAC-SHA-1 values of hotpSecret for the counters 0..9 (RFC 4226,
\* appendix D), which TestHmacShaN1 pins down.
IntermediateHmacSha1 == <<
    <<204, 147, 207, 24, 80, 141, 148, 147, 76, 100, 182, 93, 139, 167, 102, 127, 183, 205, 228, 176>>,
    <<117, 164, 138, 25, 212, 203, 225, 0, 100, 78, 138, 193, 57, 126, 234, 116, 122, 45, 51, 171>>,
    <<11, 172, 183, 250, 8, 47, 239, 48, 120, 34, 17, 147, 139, 193, 197, 231, 4, 22, 255, 68>>,
    <<102, 194, 130, 39, 208, 58, 45, 85, 41, 38, 47, 240, 22, 161, 230, 239, 118, 85, 126, 206>>,
    <<169, 4, 201, 0, 166, 75, 53, 144, 152, 116, 179, 62, 97, 197, 147, 138, 142, 21, 237, 28>>,
    <<163, 126, 120, 61, 123, 114, 51, 192, 131, 212, 246, 41, 38, 199, 162, 95, 35, 141, 3, 22>>,
    <<188, 156, 210, 133, 97, 4, 44, 131, 242, 25, 50, 77, 60, 96, 114, 86, 192, 50, 114, 174>>,
    <<164, 251, 150, 12, 11, 192, 110, 30, 171, 184, 4, 229, 179, 151, 205, 196, 180, 85, 150, 250>>,
    <<27, 60, 137, 246, 94, 108, 158, 136, 48, 18, 5, 40, 35, 68, 63, 4, 139, 67, 50, 219>>,
    <<22, 55, 64, 152, 9, 166, 121, 220, 105, 130, 7, 49, 12, 140, 127, 192, 114, 144, 217, 229>> >>

RECURSIVE SumBytes(_)
SumBytes(bs) == IF bs = <<>> THEN 0 ELSE Head(bs) + SumBytes(Tail(bs))

\* hmac.New(hashFunc, key) written with buf and summed.  crypto/hmac is not
\* part of the repository; the code relies on two things only, and the model
\* keeps both: the digest is a function of (hashFunc, key, buf), and it is
\* hashFunc's Size() bytes long.  The RFC 4226 digests are tabulated; any
\* other digest is derived from the arguments and the environment's salt, so
\* that every truncation offset and both values of the top bit occur.
HmacSum(hashFunc, key, buf, env) ==
    IF  /\ hashFunc = "SHA1" /\ key = hotpSecret
        /\ \A i \in 1..7 : buf[i] = 0
        /\ buf[8] < Len(IntermediateHmacSha1)
    THEN IntermediateHmacSha1[buf[8] + 1]
    ELSE LET seed == SumBytes(key) + 7 * Len(key) + 13 * SumBytes(buf)
                     + 101 * env + HashSize(hashFunc)
         IN  [i \in 1..HashSize(hashFunc) |->
                 (seed * (2 * i + 1) + 29 * i * i + 255 * (seed % 2)) % 256]

\* hmacShaN generates a hmac-sha-n.
hmacShaN(hashFunc, key, counter, env) ==
    HmacSum(hashFunc, key, PutUint64(counter), env)

\* pow10 computes the n-th power of 10, in a uint: the loop's state after i
\* rounds (res is compared so that each round's product is computed before
\* the next round starts).
RECURSIVE pow10Loop(_, _, _)
pow10Loop(res, i, n) ==
    IF res # <<>> /\ i < n THEN pow10Loop(UintMul10(res), i + 1, n) ELSE res

\* pow10 with a loop that runs one round too many (i <= n for i < n).
pow10OneRoundMore(n) == pow10Loop(UintOne, 0, n + 1)

pow10(n) == pow10Loop(UintOne, 0, n)

\* dynamicTruncation with the offset taken from the high 4 bits of the last
\* byte.
dynamicTruncationHighNibble(hs) ==
    LET offset == hs[Len(hs)] \div 16
    IN  IF offset + 4 > Len(hs)
        THEN [panic |-> TRUE, value |-> 0]
        ELSE [panic |-> FALSE,
              value |-> (hs[offset + 1] % 128) * (2 ^ 24) + hs[offset + 2] * (2 ^ 16)
                        + hs[offset + 3] * (2 ^ 8) + hs[offset + 4]]

\* dynamicTruncation with the offset taken from the low nibble of the first
\* byte of the digest instead of the last one.
dynamicTruncationFirstByte(hs) ==
    LET offset == hs[1] % 16
    IN  IF offset + 4 > Len(hs)
        THEN [panic |-> TRUE, value |-> 0]
        ELSE [panic |-> FALSE,
              value |-> (hs[offset + 1] % 128) * (2 ^ 24) + hs[offset + 2] * (2 ^ 16)
                        + hs[offset + 3] * (2 ^ 8) + hs[offset + 4]]

\* dynamicTruncation is the DT function of section 5.4 of the rfc.  The
\* slice hs[offset:offset+4] aborts when offset+4 exceeds len(hs).
dynamicTruncation(hs) ==
    LET offset == hs[Len(hs)] % 16
    IN  IF offset + 4 > Len(hs)
        THEN [panic |-> TRUE, value |-> 0]
        ELSE [panic |-> FALSE,
              value |-> (hs[offset + 1] % 128) * (2 ^ 24) + hs[offset + 2] * (2 ^ 16)
                        + hs[offset + 3] * (2 ^ 8) + hs[offset + 4]]

HOTPOptions(digits, algorithm) == [Digits |-> digits, Algorithm |-> algorithm]

\* HOTP without its defaults: the options are used as they were given, the
\* algorithm apart.
HOTPDigitsAsGiven(key, counter, opts, env) ==
    LET algorithm == IF opts.Algorithm = "nil" THEN "SHA1" ELSE opts.Algorithm
        dt        == dynamicTruncation(hmacShaN(algorithm, key, counter, env))
        modulus   == pow10(opts.Digits)
    IN  IF dt.panic \/ modulus = UintZero
        THEN [panic |-> TRUE, counter |-> counter, code |-> 0]
        ELSE [panic |-> FALSE, counter |-> counter,
              code |-> UintMod(dt.value, modulus)]

\* HOTP computes the OTP code of a given counter.  The result records the
\* counter it was handed and whether the call aborted (the % of a uint by 0
\* is a run-time panic in Go, and so is a hash constructor that aborts when
\* hmac.New calls it).
HOTP(key, counter, opts, env) ==
    LET algorithm == IF opts.Algorithm = "nil" THEN "SHA1" ELSE opts.Algorithm
        digits    == IF opts.Digits = 0 THEN DefaultDigits ELSE opts.Digits
        dt        == dynamicTruncation(hmacShaN(algorithm, key, counter, env))
        modulus   == pow10(digits)
    IN  IF ~HashAvailable(algorithm) \/ dt.panic \/ modulus = UintZero
        THEN [panic |-> TRUE, counter |-> counter, code |-> 0]
        ELSE [panic |-> FALSE, counter |-> counter,
              code |-> UintMod(dt.value, modulus)]

(***************************************************************************)
(* totp.go                                                                 *)
(***************************************************************************)
DefaultPeriod == 30

TOTPOptions(hotpOptions, timeReference, period, step) ==
    [HOTPOptions |-> hotpOptions, TimeReference |-> timeReference,
     Period |-> period, Step |-> step]

\* timePeriodCount without its branch for times before t0: Go's truncating
\* division alone.
timePeriodCountTruncating(currentTime, t0, x) == GoDiv(currentTime - t0, x)

\* timePeriodCount returns T as defined in section 4.2 of the rfc.
\* (x # 0: TOTP never passes 0, and a division by 0 aborts.)
timePeriodCount(currentTime, t0, x) ==
    IF currentTime < t0
    THEN GoDiv(currentTime - t0, x) - 1
    ELSE GoDiv(currentTime - t0, x)

\* An int64 beyond the 32 bits of the numbers above is a pair <<hi, lo>> that
\* stands for hi * 2^16 + lo, with 0 <= lo < 2^16.
Int64(n) == <<n \div Limb, n % Limb>>

\* a * m + d for an int64 a and small m >= 0, 0 <= d < 2^16 (no overflow
\* at the magnitudes of Unix times).
MulAdd64(a, m, d) ==
    <<a[1] * m + ((a[2] * m + d) \div Limb), (a[2] * m + d) % Limb>>

\* a < b
Less64(a, b) == a[1] < b[1] \/ (a[1] = b[1] /\ a[2] < b[2])

\* a - b
Sub64(a, b) ==
    IF a[2] >= b[2]
    THEN <<a[1] - b[1], a[2] - b[2]>>
    ELSE <<a[1] - b[1] - 1, a[2] - b[2] + Limb>>

\* a / int64(x) for a >= 0 and x > 0, by long division.
DivNonNegative64(a, x) == <<a[1] \div x, ((a[1] % x) * Limb + a[2]) \div x>>

\* a / int64(x) for x > 0: Go's division truncates toward zero.
Div64(a, x) ==
    IF a[1] >= 0
    THEN DivNonNegative64(a, x)
    ELSE Sub64(<<0, 0>>, DivNonNegative64(Sub64(<<0, 0>>, a), x))

\* int(a), for a quotient that the numbers above can hold.
ToInt(a) == a[1] * Limb + a[2]

\* timePeriodCount64 with the branch taken for currentTime <= t0.
timePeriodCount64AtReference(currentTime, t0, x) ==
    IF ~Less64(t0, currentTime)
    THEN ToInt(Div64(Sub64(currentTime, t0), x)) - 1
    ELSE ToInt(Div64(Sub64(currentTime, t0), x))

\* timePeriodCount on int64 times written as pairs (x > 0).
timePeriodCount64(currentTime, t0, x) ==
    IF Less64(currentTime, t0)
    THEN ToInt(Div64(Sub64(currentTime, t0), x)) - 1
    ELSE ToInt(Div64(Sub64(currentTime, t0), x))

\* TOTP with a default period of one minute.
TOTPDefaultMinute(key, t, opts, env) ==
    LET period == IF opts.Period = 0 THEN 2 * DefaultPeriod ELSE opts.Period
    IN  HOTP(key, timePeriodCount(t, opts.TimeReference, period) + opts.Step,
             opts.HOTPOptions, env)

\* TOTP computes the OTP code of a given time (t is t.Unix()).
TOTP(key, t, opts, env) ==
    LET period == IF opts.Period = 0 THEN DefaultPeriod ELSE opts.Period
    IN  HOTP(key, timePeriodCount(t, opts.TimeReference, period) + opts.Step,
             opts.HOTPOptions, env)

(***************************************************************************)
(* Strings.  A Go string is modelled as a sequence of tokens; a token is   *)
(* one character that the code or its libraries look at (a delimiter, a    *)
(* percent escape of three characters, a digit, a sign, a base32 letter)   *)
(* or a run of letters that nothing splits ("otpauth", "secret", "alice"). *)
(* The empty string is <<>>.                                               *)
(***************************************************************************)
\* strings.Index: the first position of tok in s, 0 when there is none.
Index(s, tok) ==
    IF \E i \in 1..Len(s) : s[i] = tok
    THEN CHOOSE i \in 1..Len(s) : s[i] = tok /\ \A j \in 1..(i - 1) : s[j] # tok
    ELSE 0

\* strings.Cut
Cut(s, sep) ==
    LET i == Index(s, sep)
    IN  IF i = 0
        THEN [before |-> s, after |-> <<>>, found |-> FALSE]
        ELSE [before |-> SubSeq(s, 1, i - 1), after |-> SubSeq(s, i + 1, Len(s)),
              found |-> TRUE]

\* strings.Count
Count(s, tok) == Cardinality({i \in 1..Len(s) : s[i] = tok})

HasPrefix(s, p) == Len(s) >= Len(p) /\ SubSeq(s, 1, Len(p)) = p

DigitTokens == <<"0", "1", "2", "3", "4", "5", "6", "7", "8", "9">>

IsDigit(tok) == \E i \in 1..10 : DigitTokens[i] = tok

DigitValue(tok) == (CHOOSE i \in 1..10 : DigitTokens[i] = tok) - 1

(***************************************************************************)
(* net/url, as far as ParseURI and Key.URI use it.                         *)
(***************************************************************************)
\* The percent escapes of the alphabet and the character each stands for.
\* A bare "%" token is a percent sign that no two hexadecimal digits follow.
Escapes == {"%3F", "%23", "%25", "%26", "%3D", "%3A", "%2F", "%2B", "%20"}

Unhex(tok) ==
    CASE tok = "%3F" -> "?"
      [] tok = "%23" -> "#"
      [] tok = "%25" -> "%"
      [] tok = "%26" -> "&"
      [] tok = "%3D" -> "="
      [] tok = "%3A" -> ":"
      [] tok = "%2F" -> "/"
      [] tok = "%2B" -> "+"
      [] tok = "%20" -> " "

\* url.unescape in the modes encodePath / encodeFragment (plus = FALSE) and
\* encodeQueryComponent (plus = TRUE, where "+" stands for a space).
unescape(s, plus) ==
    IF \E i \in 1..Len(s) : s[i] = "%"
    THEN [err |-> "EscapeError", s |-> <<>>]
    ELSE [err |-> "nil",
          s |-> [i \in 1..Len(s) |->
                    IF s[i] \in Escapes THEN Unhex(s[i])
                    ELSE IF plus /\ s[i] = "+" THEN " "
                    ELSE s[i]]]

\* url.QueryEscape: everything but letters, digits, "-", "_", "." and "~"
\* is percent-escaped, a space becomes "+".
QueryEscape(s) ==
    [i \in 1..Len(s) |->
        IF s[i] = " " THEN "+"
        ELSE IF \E e \in Escapes : Unhex(e) = s[i]
             THEN CHOOSE e \in Escapes : Unhex(e) = s[i]
             ELSE s[i]]

\* What stops the scan of url.getScheme: any character that is neither a
\* letter, a digit, "+", "-" nor ".".
SchemeStop(tok) ==
    tok \in Escapes \cup {":", "/", "?", "#", "&", "=", "%", " "}

\* Where the scan of url.getScheme stops in s, 0 when it runs to the end.
FirstStop(s) ==
    IF \E i \in 1..Len(s) : SchemeStop(s[i])
    THEN CHOOSE i \in 1..Len(s) :
             SchemeStop(s[i]) /\ \A j \in 1..(i - 1) : ~SchemeStop(s[j])
    ELSE 0

\* url.getScheme, its scan stopped at position i.
getSchemeAt(rawURL, i) ==
    IF i = 0 \/ IsDigit(rawURL[1]) \/ rawURL[1] \in {"+", "-"}
    THEN [err |-> "nil", scheme |-> <<>>, rest |-> rawURL]
    ELSE IF rawURL[i] # ":"
    THEN [err |-> "nil", scheme |-> <<>>, rest |-> rawURL]
    ELSE IF i = 1
    THEN [err |-> "missing protocol scheme", scheme |-> <<>>, rest |-> <<>>]
    ELSE [err |-> "nil", scheme |-> SubSeq(rawURL, 1, i - 1),
          rest |-> SubSeq(rawURL, i + 1, Len(rawURL))]

\* url.getScheme
getScheme(rawURL) == getSchemeAt(rawURL, FirstStop(rawURL))

\* url.parseAuthority / parseHost: an optional port after the last ":" must
\* be decimal; the host admits no percent escape of an ASCII character and
\* no character that needs one.
parseHost(authority, host, port) ==
    IF \/ \E i \in 1..Len(port) : ~IsDigit(port[i])
       \/ \E i \in 1..Len(host) :
              host[i] \in Escapes \cup {"%", " ", "#", "?", "/"}
    THEN [err |-> "invalid host", host |-> <<>>]
    ELSE [err |-> "nil", host |-> authority]

parseAuthority(authority) ==
    parseHost(authority, Cut(authority, ":").before, Cut(authority, ":").after)

URLError(e) == [err |-> e, Scheme |-> <<>>, Host |-> <<>>, Path |-> <<>>,
                RawQuery |-> <<>>]

\* url.parse, its end: the authority and the path are parsed, and the first
\* of their errors is the error of the URL.
setHostPath(scheme, auth, p, query) ==
    IF auth.err # "nil" THEN URLError(auth.err)
    ELSE IF p.err # "nil" THEN URLError(p.err)
    ELSE [err |-> "nil", Scheme |-> scheme, Host |-> auth.host,
          Path |-> p.s, RawQuery |-> query]

\* url.parse after "//": the authority runs to the first "/", the path is
\* what follows.
parseAfterSlashes(scheme, after, slash, query) ==
    IF slash = 0
    THEN setHostPath(scheme, parseAuthority(after), unescape(<<>>, FALSE), query)
    ELSE setHostPath(scheme, parseAuthority(SubSeq(after, 1, slash - 1)),
                     unescape(SubSeq(after, slash, Len(after)), FALSE), query)

\* url.parse, once the scheme and the query are cut off.
parseHier(scheme, rest, query) ==
    IF ~HasPrefix(rest, <<"/">>) /\ scheme # <<>>
    THEN \* a rootless path is opaque: neither Host nor Path is set
         [err |-> "nil", Scheme |-> scheme, Host |-> <<>>, Path |-> <<>>,
          RawQuery |-> query]
    ELSE IF ~HasPrefix(rest, <<"/">>) /\ Index(Cut(rest, "/").before, ":") # 0
    THEN URLError("first path segment in URL cannot contain colon")
    ELSE IF /\ HasPrefix(rest, <<"/", "/">>)
            /\ (scheme # <<>> \/ ~HasPrefix(rest, <<"/", "/", "/">>))
    THEN parseAfterSlashes(scheme, SubSeq(rest, 3, Len(rest)),
                           Index(SubSeq(rest, 3, Len(rest)), "/"), query)
    ELSE setHostPath(scheme, [err |-> "nil", host |-> <<>>],
                     unescape(rest, FALSE), query)

\* url.parse, once the scheme g is cut off: a lone final "?" is dropped,
\* otherwise the query is what follows the first "?".
parseRest(g) ==
    IF g.err # "nil" THEN URLError(g.err)
    ELSE IF /\ g.rest # <<>> /\ g.rest[Len(g.rest)] = "?"
            /\ Count(g.rest, "?") = 1
    THEN parseHier(g.scheme, SubSeq(g.rest, 1, Len(g.rest) - 1), <<>>)
    ELSE parseHier(g.scheme, Cut(g.rest, "?").before, Cut(g.rest, "?").after)

\* url.parse(rawURL, false), rawURL without its fragment.
parse(rawURL) == parseRest(getScheme(rawURL))

\* url.Parse: the fragment is cut off first and must unescape.
setFragment(u, frag) ==
    IF u.err # "nil" THEN u
    ELSE IF unescape(frag, FALSE).err # "nil" THEN URLError("EscapeError")
    ELSE u

urlParse(rawURL) ==
    setFragment(parse(Cut(rawURL, "#").before), Cut(rawURL, "#").after)

\* url.ParseQuery, whose error URL.Query() drops: the pairs of the query in
\* the order written; a pair whose key or value does not unescape is left out.
parsePair(pair, k, v, rest) ==
    IF pair = <<>> \/ k.err # "nil" \/ v.err # "nil"
    THEN rest
    ELSE <<[key |-> k.s, value |-> v.s]>> \o rest

RECURSIVE parseQuery(_)
parseQuery(query) ==
    IF query = <<>> THEN <<>>
    ELSE parsePair(Cut(query, "&").before,
                   unescape(Cut(Cut(query, "&").before, "=").before, TRUE),
                   unescape(Cut(Cut(query, "&").before, "=").after, TRUE),
                   parseQuery(Cut(query, "&").after))

\* url.Values.Has
Has(values, k) == \E i \in 1..Len(values) : values[i].key = <<k>>

\* url.Values.Get: the first value of the key, "" when there is none.
Get(values, k) ==
    IF Has(values, k)
    THEN values[CHOOSE i \in 1..Len(values) :
                    /\ values[i].key = <<k>>
                    /\ \A j \in 1..(i - 1) : values[j].key # <<k>>].value
    ELSE <<>>

(***************************************************************************)
(* encoding/base32 (StdEncoding, NoPadding) and strconv, as key.go uses    *)
(* them.  A byte slice is a sequence of numbers 0..255.                    *)
(***************************************************************************)
encodeStd == <<"A", "B", "C", "D", "E", "F", "G", "H", "I", "J", "K", "L", "M",
               "N", "O", "P", "Q", "R", "S", "T", "U", "V", "W", "X", "Y", "Z",
               "2", "3", "4", "5", "6", "7">>

InAlphabet(tok) == \E i \in 1..32 : encodeStd[i] = tok

decodeMap(tok) == (CHOOSE i \in 1..32 : encodeStd[i] = tok) - 1

\* Bit k (0 = first, most significant) of a stream of w-bit units.
StreamBit(units, w, k) ==
    IF (k \div w) + 1 > Len(units) THEN 0
    ELSE (units[(k \div w) + 1] \div (2 ^ (w - 1 - (k % w)))) % 2

\* The w bits of the stream from bit k on, as a number.
RECURSIVE StreamBits(_, _, _, _, _)
StreamBits(units, w, k, n, acc) ==
    IF n = 0 THEN acc
    ELSE StreamBits(units, w, k + 1, n - 1, 2 * acc + StreamBit(units, w, k))

\* How many bytes Encoding.decode writes for a final quantum of dlen
\* characters (its switch has the cases 8, 7, 5, 4 and 2).
QuantumBytes(dlen) ==
    CASE dlen = 7 -> 4
      [] dlen = 5 -> 3
      [] dlen = 4 -> 2
      [] dlen = 2 -> 1
      [] OTHER    -> 0

\* base32.StdEncoding.WithPadding(base32.NoPadding).DecodeString
DecodeString(s) ==
    IF \E i \in 1..Len(s) : ~InAlphabet(s[i])
    THEN [err |-> "CorruptInputError", bytes |-> <<>>]
    ELSE LET units == [i \in 1..Len(s) |-> decodeMap(s[i])]
             n     == 5 * (Len(s) \div 8) + QuantumBytes(Len(s) % 8)
         IN  [err |-> "nil",
              bytes |-> [j \in 1..n |-> StreamBits(units, 5, 8 * (j - 1), 8, 0)]]

\* base32.StdEncoding.WithPadding(base32.NoPadding).EncodeToString
EncodeToString(src) ==
    LET n == (8 * Len(src) + 4) \div 5
    IN  [j \in 1..n |-> encodeStd[StreamBits(src, 8, 5 * (j - 1), 5, 0) + 1]]

RECURSIVE DecimalValue(_, _)
DecimalValue(s, acc) ==
    IF s = <<>> THEN acc ELSE DecimalValue(Tail(s), 10 * acc + DigitValue(Head(s)))

\* strconv.ParseUint(s, 10, 0): one or more decimal digits, no sign.  (The
\* numerals of the model are short: none is out of the range of a uint.)
ParseUint(s) ==
    IF s = <<>> \/ \E i \in 1..Len(s) : ~IsDigit(s[i])
    THEN [err |-> "NumError", v |-> 0]
    ELSE [err |-> "nil", v |-> DecimalValue(s, 0)]

\* strconv.ParseInt(s, 10, 0): an optional sign, then ParseUint.
ParseInt(s) ==
    LET signed == s # <<>> /\ s[1] \in {"+", "-"}
        u      == ParseUint(IF signed THEN Tail(s) ELSE s)
    IN  IF u.err # "nil" THEN u
        ELSE [err |-> "nil", v |-> IF signed /\ s[1] = "-" THEN -u.v ELSE u.v]

RECURSIVE FormatUint(_)
FormatUint(n) ==
    IF n < 10 THEN <<DigitTokens[n + 1]>>
    ELSE FormatUint(n \div 10) \o <<DigitTokens[(n % 10) + 1]>>

\* strconv.FormatInt(i, 10)
FormatInt(i) == IF i < 0 THEN <<"-">> \o FormatUint(-i) ELSE FormatUint(i)

(***************************************************************************)
(* key.go                                                                  *)
(***************************************************************************)
uriScheme == "otpauth"

TypeTOTP == "totp"

TypeHOTP == "hotp"

\* The package's var block as it is initialised: the two lookup tables.
\* A crypto.Hash is written by its name, crypto.Hash(0) is written "0".
packageVars ==
    [algorithmsStringToHash |-> [s \in {"SHA1", "SHA256", "SHA512"} |-> s],
     algorithmsHashToString |->
         [h \in {"0", "SHA1", "SHA256", "SHA512"} |->
             IF h = "0" THEN "SHA1" ELSE h]]

\* The tables as they are now (no statement of the package assigns to them
\* or to an entry of theirs).
algorithmsStringToHash == tables.algorithmsStringToHash

algorithmsHashToString == tables.algorithmsHashToString

\* Key{}
ZeroKey == [Type |-> <<>>, Label |-> <<>>, Secret |-> <<>>, Issuer |-> <<>>,
            Algorithm |-> "0", Digits |-> 0, Counter |-> 0, Period |-> 0]

\* Key.HOTPOptions: Algorithm is the method value key.Algorithm.New, which
\* is never nil; for the zero selector it is crypto.Hash(0).New, "0".
KeyHOTPOptions(key) == HOTPOptions(key.Digits, key.Algorithm)

\* Key.TOTPOptions (TimeReference and Step keep their zero values)
KeyTOTPOptions(key) == TOTPOptions(KeyHOTPOptions(key), 0, key.Period, 0)

\* ParseURI, "// algorithm": the selector named by the parameter, SHA1
\* when there is none.
parseAlgorithm(query) ==
    IF Has(query, "algorithm")
    THEN LET algorithmRaw == Get(query, "algorithm")
         IN  IF Len(algorithmRaw) = 1
                /\ algorithmRaw[1] \in DOMAIN algorithmsStringToHash
             THEN [err |-> "nil", v |-> algorithmsStringToHash[algorithmRaw[1]]]
             ELSE [err |-> "ErrInvalidAlgorithm", v |-> "0"]
    ELSE [err |-> "nil", v |-> "SHA1"]

\* "// digits" without its else branch: res.Digits keeps its zero value
\* when the URI names no digits.
parseDigitsNoDefault(query) ==
    IF Has(query, "digits")
    THEN ParseUint(Get(query, "digits"))
    ELSE [err |-> "nil", v |-> 0]

\* ParseURI, "// digits"
parseDigits(query) ==
    IF Has(query, "digits")
    THEN ParseUint(Get(query, "digits"))
    ELSE [err |-> "nil", v |-> 6]

\* ParseURI, "// counter (only hotp)"
parseCounter(query) ==
    IF ~Has(query, "counter")
    THEN [err |-> "ErrMissingCounter", v |-> 0]
    ELSE ParseInt(Get(query, "counter"))

\* ParseURI, "// period (only totp)"
parsePeriod(query) ==
    IF Has(query, "period")
    THEN ParseInt(Get(query, "period"))
    ELSE [err |-> "nil", v |-> 30]

Returns(key, err) == [panic |-> FALSE, key |-> key, err |-> err]

\* res without the tests of res.Type around "// counter" and "// period":
\* both parameters are read whatever the type.
resUngated(url, query, n) ==
    [Type      |-> url.Host,
     Label     |-> IF n >= 2 THEN Tail(url.Path) ELSE <<>>,
     Secret    |-> IF n >= 3 THEN DecodeString(Get(query, "secret")).bytes ELSE <<>>,
     Issuer    |-> IF n >= 3 THEN Get(query, "issuer") ELSE <<>>,
     Algorithm |-> IF n >= 4 THEN parseAlgorithm(query).v ELSE "0",
     Digits    |-> IF n >= 5 THEN parseDigits(query).v ELSE 0,
     Counter   |-> IF n >= 6 THEN parseCounter(query).v ELSE 0,
     Period    |-> IF n >= 7 THEN parsePeriod(query).v ELSE 0]

\* The variable res of ParseURI once n of its sections have assigned to it:
\* 1 type, 2 label, 3 secret and issuer, 4 algorithm, 5 digits, 6 counter,
\* 7 period.
res(url, query, n) ==
    [Type      |-> url.Host,
     Label     |-> IF n >= 2 THEN Tail(url.Path) ELSE <<>>,
     Secret    |-> IF n >= 3 THEN DecodeString(Get(query, "secret")).bytes ELSE <<>>,
     Issuer    |-> IF n >= 3 THEN Get(query, "issuer") ELSE <<>>,
     Algorithm |-> IF n >= 4 THEN parseAlgorithm(query).v ELSE "0",
     Digits    |-> IF n >= 5 THEN parseDigits(query).v ELSE 0,
     Counter   |-> IF n >= 6 /\ url.Host = <<TypeHOTP>>
                   THEN parseCounter(query).v ELSE 0,
     Period    |-> IF n >= 7 /\ url.Host = <<TypeTOTP>>
                   THEN parsePeriod(query).v ELSE 0]

\* ParseURI from "// scheme validation" on, query being parsed.Query().
\* The slice parsed.Path[1:] aborts on an empty path.
parseKey(url, query) ==
    IF url.Scheme # <<uriScheme>> THEN Returns(ZeroKey, "ErrInvalidScheme")
    ELSE IF url.Host # <<TypeTOTP>> /\ url.Host # <<TypeHOTP>>
    THEN Returns(ZeroKey, "ErrInvalidType")
    ELSE IF url.Path = <<>>
    THEN [panic |-> TRUE, key |-> res(url, query, 1), err |-> "nil"]
    ELSE IF ~Has(query, "secret") \/ Get(query, "secret") = <<>>
    THEN Returns(res(url, query, 2), "ErrMissingSecret")
    ELSE IF DecodeString(Get(query, "secret")).err # "nil"
    THEN Returns(res(url, query, 2), DecodeString(Get(query, "secret")).err)
    ELSE IF parseAlgorithm(query).err # "nil"
    THEN Returns(res(url, query, 3), parseAlgorithm(query).err)
    ELSE IF parseDigits(query).err # "nil"
    THEN Returns(res(url, query, 4), parseDigits(query).err)
    ELSE IF url.Host = <<TypeHOTP>> /\ parseCounter(query).err # "nil"
    THEN Returns(res(url, query, 5), parseCounter(query).err)
    ELSE IF url.Host = <<TypeTOTP>> /\ parsePeriod(query).err # "nil"
    THEN Returns(res(url, query, 6), parsePeriod(query).err)
    ELSE Returns(res(url, query, 7), "nil")

\* ParseURI, once url.Parse has returned.
parseParsed(url) ==
    IF url.err # "nil" THEN Returns(ZeroKey, "url.Error")
    ELSE parseKey(url, parseQuery(url.RawQuery))

\* ParseURI
ParseURI(rawURI) == parseParsed(urlParse(rawURI))

\* The names a url.Values can hold here, in the order Values.Encode sorts them.
SortedKeys == <<"algorithm", "counter", "digits", "issuer", "period", "secret">>

\* url.Values.Encode: key=value pairs, sorted by key, joined with "&", keys
\* and values query-escaped.  params maps the keys that are set to values.
\* strings.Join of a first piece and the rest with "&" (either may be none).
JoinAmp(first, rest) ==
    IF first = <<>> THEN rest
    ELSE IF rest = <<>> THEN first
    ELSE first \o <<"&">> \o rest

RECURSIVE Encode(_, _)
Encode(params, i) ==
    IF i > Len(SortedKeys) THEN <<>>
    ELSE JoinAmp(IF SortedKeys[i] \notin DOMAIN params THEN <<>>
                 ELSE <<SortedKeys[i], "=">> \o QueryEscape(params[SortedKeys[i]]),
                 Encode(params, i + 1))

\* Params with the counter of a hotp key set only when it is not 0 (the
\* way the period is).
ParamsCounterIfSet(key) ==
    [k \in {"secret", "algorithm"}
            \cup (IF key.Issuer # <<>> \/ key.Digits # 0 THEN {"issuer"} ELSE {})
            \cup (IF key.Type = <<TypeHOTP>>
                  THEN (IF key.Counter # 0 THEN {"counter"} ELSE {})
                  ELSE IF key.Period # 0 THEN {"period"} ELSE {}) |->
        CASE k = "secret"    -> EncodeToString(key.Secret)
          [] k = "issuer"    -> key.Issuer
          [] k = "algorithm" -> <<algorithmsHashToString[key.Algorithm]>>
          [] k = "counter"   -> FormatInt(key.Counter)
          [] k = "period"    -> FormatInt(key.Period)]

\* The url.Values that Key.URI fills: the names set, with their values.
Params(key) ==
    [k \in {"secret", "algorithm"}
            \cup (IF key.Issuer # <<>> \/ key.Digits # 0 THEN {"issuer"} ELSE {})
            \cup (IF key.Type = <<TypeHOTP>> THEN {"counter"}
                  ELSE IF key.Period # 0 THEN {"period"} ELSE {}) |->
        CASE k = "secret"    -> EncodeToString(key.Secret)
          [] k = "issuer"    -> key.Issuer
          [] k = "algorithm" -> <<algorithmsHashToString[key.Algorithm]>>
          [] k = "counter"   -> FormatInt(key.Counter)
          [] k = "period"    -> FormatInt(key.Period)]

\* Key.URI with the secret tested before the type.
URISecretFirst(key) ==
    IF Len(key.Secret) = 0
    THEN [uri |-> <<>>, err |-> "ErrMissingSecret"]
    ELSE IF key.Type # <<TypeHOTP>> /\ key.Type # <<TypeTOTP>>
    THEN [uri |-> <<>>, err |-> "ErrInvalidType"]
    ELSE IF key.Algorithm \notin DOMAIN algorithmsHashToString
    THEN [uri |-> <<>>, err |-> "ErrInvalidAlgorithm"]
    ELSE [uri |-> <<"otpauth", ":", "/", "/">> \o key.Type \o <<"/">>
                  \o key.Label \o <<"?">> \o Encode(Params(key), 1),
          err |-> "nil"]

\* Key.URI
URI(key) ==
    IF key.Type # <<TypeHOTP>> /\ key.Type # <<TypeTOTP>>
    THEN [uri |-> <<>>, err |-> "ErrInvalidType"]
    ELSE IF Len(key.Secret) = 0
    THEN [uri |-> <<>>, err |-> "ErrMissingSecret"]
    ELSE IF key.Algorithm \notin DOMAIN algorithmsHashToString
    THEN [uri |-> <<>>, err |-> "ErrInvalidAlgorithm"]
    ELSE [uri |-> <<"otpauth", ":", "/", "/">> \o key.Type \o <<"/">>
                  \o key.Label \o <<"?">> \o Encode(Params(key), 1),
          err |-> "nil"]

(***************************************************************************)
(* SpecOTP: one call of HOTP, TOTP or timePeriodCount.                     *)
(***************************************************************************)
Secrets == {<<>>, hotpSecret}

Counters == (-2)..MaxCounter

Times == (-MaxTime)..MaxTime

Steps == (-2)..2

HOTPCalls ==
    {[fn |-> "HOTP", key |-> k, counter |-> c, t |-> 0,
      opts |-> TOTPOptions(HOTPOptions(d, a), 0, 0, 0)] :
        k \in Secrets, c \in Counters, d \in 0..MaxDigits, a \in HashFuncs}

TOTPCalls ==
    {[fn |-> "TOTP", key |-> hotpSecret, counter |-> 0, t |-> t,
      opts |-> TOTPOptions(HOTPOptions(d, a), t0, x, s)] :
        t \in Times, d \in {0, 8, MaxDigits - 1}, a \in {"nil", "SHA512"},
        t0 \in {0, 5}, x \in {0, 7, DefaultPeriod}, s \in Steps}

TimeCalls ==
    {[fn |-> "timePeriodCount", key |-> <<>>, counter |-> 0, t |-> t,
      opts |-> TOTPOptions(HOTPOptions(0, "nil"), t0, x, 0)] :
        t \in Times, t0 \in {-7, 0, 5}, x \in {1, 2, 7, DefaultPeriod}}

\* The times of totpTestValues (RFC 6238, appendix B) and the T of each for
\* TimeReference 0 and Period 30.
rfcTimes == <<Int64(59), Int64(1111111109), Int64(1111111111), Int64(1234567890),
              Int64(2000000000), MulAdd64(Int64(2000000000), 10, 0)>>

rfcT == <<1, 37037036, 37037037, 41152263, 66666666, 666666666>>

\* Calls of timePeriodCount with int64 times (the field t is a pair): the
\* RFC's and a few around the reference, with periods for which T is below
\* 2^31.
Times64 == {rfcTimes[i] : i \in 1..Len(rfcTimes)} \cup {Int64(t) : t \in (-1)..6}

TimeCalls64 ==
    {[fn |-> "timePeriodCount64", key |-> <<>>, counter |-> 0, t |-> t,
      opts |-> TOTPOptions(HOTPOptions(0, "nil"), t0, x, 0)] :
        t \in Times64, t0 \in {0, 5}, x \in {15, DefaultPeriod, 60}}

\* Calls of dynamicTruncation (the field key is the digest hs): the digests
\* of hmacShaN, of 20, 32 and 64 bytes; of each size the digest whose bytes
\* are all 0xff (offset 15, every bit of the four bytes set); and of each
\* size digests ending in a byte of every low nibble.
Digests ==
    {hmacShaN(a, k, c, e) : a \in HashFuncs \ {"nil"}, k \in Secrets,
                            c \in Counters, e \in 0..MaxSalt}
    \cup {[i \in 1..HashSize(a) |-> 255] : a \in HashFuncs \ {"nil"}}
    \cup {[i \in 1..HashSize(a) |->
              IF i = HashSize(a) THEN h + n ELSE (37 * i + 11 * n + h) % 256] :
            a \in HashFuncs \ {"nil"}, n \in 0..15, h \in {0, 240}}

TruncationCalls ==
    {[fn |-> "dynamicTruncation", key |-> hs, counter |-> 0, t |-> 0,
      opts |-> TOTPOptions(HOTPOptions(0, "nil"), 0, 0, 0)] : hs \in Digests}

InitOTP ==
    /\ pc = "start"
    /\ \/ call \in HOTPCalls \cup TOTPCalls \cup TimeCalls \cup TruncationCalls
       \/ call \in TimeCalls64
    /\ salt \in 0..MaxSalt
    /\ ret = None
    /\ uri = None /\ parsed = None /\ encoded = None /\ reparsed = None
    /\ tables = packageVars /\ secret = None /\ local = None

Finish(r) ==
    /\ pc' = IF r.panic THEN "panic" ELSE "done"
    /\ ret' = [T |-> None, counter |-> r.counter, code |-> r.code]
    /\ UNCHANGED <<call, salt, uri, parsed, encoded, reparsed, shared, local>>

CallHOTP ==
    /\ pc = "start" /\ call.fn = "HOTP"
    /\ Finish(HOTP(call.key, call.counter, call.opts.HOTPOptions, salt))

CallTOTP ==
    /\ pc = "start" /\ call.fn = "TOTP"
    /\ Finish(TOTP(call.key, call.t, call.opts, salt))

CallTimePeriodCount ==
    /\ pc = "start" /\ call.fn = "timePeriodCount"
    /\ pc' = "done"
    /\ ret' = [T |-> timePeriodCount(call.t, call.opts.TimeReference, call.opts.Period),
               counter |-> None, code |-> None]
    /\ UNCHANGED <<call, salt, uri, parsed, encoded, reparsed, shared, local>>

\* timePeriodCount on an int64 time
CallTimePeriodCount64 ==
    /\ pc = "start" /\ call.fn = "timePeriodCount64"
    /\ pc' = "done"
    /\ ret' = [T |-> timePeriodCount64(call.t, Int64(call.opts.TimeReference),
                                       call.opts.Period),
               counter |-> None, code |-> None]
    /\ UNCHANGED <<call, salt, uri, parsed, encoded, reparsed, shared, local>>

CallDynamicTruncation ==
    /\ pc = "start" /\ call.fn = "dynamicTruncation"
    /\ \E r \in {dynamicTruncation(call.key)} :
           /\ pc' = IF r.panic THEN "panic" ELSE "done"
           /\ ret' = [T |-> None, counter |-> None, code |-> r.value]
    /\ UNCHANGED <<call, salt, uri, parsed, encoded, reparsed, shared, local>>

NextOTP ==
    \/ CallHOTP
    \/ CallTOTP
    \/ CallTimePeriodCount
    \/ CallTimePeriodCount64
    \/ CallDynamicTruncation

SpecOTP == InitOTP /\ [][NextOTP]_vars

(***************************************************************************)
(* Spec: ParseURI(uri); key.URI(); ParseURI(key.URI()).                    *)
(*                                                                         *)
(* The URIs handed to ParseURI are written from nine parts, each with a    *)
(* plain first option (together "otpauth://totp/alice?secret=JBSWY3DP")    *)
(* and other options; a URI departs from the plain one in at most          *)
(* MaxDeviations parts.  A query parameter whose option is None is absent. *)
(***************************************************************************)
MaxDeviations == 3

Options == <<
    \* 1: scheme
    << <<"otpauth">>, <<"example">>, <<"otp", "%20", "auth">> >>,
    \* 2: host
    << <<"totp">>, <<"hotp">>, <<"example">> >>,
    \* 3: path
    << <<"/", "alice">>, <<>>, <<"/">>, <<"/", "ACME", "%20", "Co", ":", "john">>,
       <<"/", "a", "%3F", "b">>, <<"/", "a", "%23", "b">>, <<"/", "a", "%25">>,
       <<"/", "%">> >>,
    \* 4: secret
    << <<"J", "B", "S", "W", "Y", "3", "D", "P">>, None, <<>>, <<"1", "X">>,
       <<"M", "F", "R", "A">> >>,
    \* 5: issuer
    << None, <<"Example">>, <<"ACME", "%20", "Co">>, <<"a", "%26", "b">> >>,
    \* 6: algorithm
    << None, <<"SHA1">>, <<"SHA256">>, <<"SHA512">>, <<"example">>, <<>> >>,
    \* 7: digits
    << None, <<"6">>, <<"8">>, <<"0">>, <<"example">>, <<"-", "1">> >>,
    \* 8: counter
    << None, <<"0">>, <<"1", "2">>, <<"-", "3">>, <<"example">> >>,
    \* 9: period
    << None, <<"3", "0">>, <<"6", "0">>, <<"0">>, <<"-", "5">>, <<"example">> >> >>

queryKeys == <<"secret", "issuer", "algorithm", "digits", "counter", "period">>

\* The choices of one option per part 1..d with at most k parts not plain.
RECURSIVE Choices(_, _)
Choices(d, k) ==
    IF d = 0 THEN {<<>>}
    ELSE {Append(v, 1) : v \in Choices(d - 1, k)}
         \cup (IF k = 0 THEN {}
               ELSE {Append(v, o) : v \in Choices(d - 1, k - 1),
                                    o \in 2..Len(Options[d])})

\* The query of a choice: the parameters present, from the i-th on.
RECURSIVE QueryText(_, _)
QueryText(v, i) ==
    IF i > Len(queryKeys) THEN <<>>
    ELSE JoinAmp(IF Options[3 + i][v[3 + i]] = None THEN <<>>
                 ELSE <<queryKeys[i], "=">> \o Options[3 + i][v[3 + i]],
                 QueryText(v, i + 1))

URIText(v) ==
    Options[1][v[1]] \o <<":", "/", "/">> \o Options[2][v[2]] \o Options[3][v[3]]
    \o (IF QueryText(v, 1) = <<>> THEN <<>> ELSE <<"?">> \o QueryText(v, 1))

URIs == {URIText(v) : v \in Choices(Len(Options), MaxDeviations)}

Init ==
    /\ pc = "start"
    /\ uri \in URIs
    /\ parsed = None /\ encoded = None /\ reparsed = None
    /\ call = None /\ ret = None /\ salt = 0
    /\ tables = packageVars /\ secret = None /\ local = None

\* key, err := ParseURI(uri)
CallParseURI ==
    /\ pc = "start"
    /\ \E r \in {ParseURI(uri)} :
           /\ pc' = IF r.panic THEN "panic" ELSE "parsed"
           /\ parsed' = IF r.panic THEN None ELSE [key |-> r.key, err |-> r.err]
    /\ UNCHANGED <<uri, encoded, reparsed, call, ret, salt, shared, local>>

\* text, err := key.URI(), on a key that ParseURI returned without error
CallURI ==
    /\ pc = "parsed" /\ parsed.err = "nil"
    /\ pc' = "encoded"
    /\ encoded' = URI(parsed.key)
    /\ UNCHANGED <<uri, parsed, reparsed, call, ret, salt, shared, local>>

\* key, err := ParseURI(text)
CallParseURIAgain ==
    /\ pc = "encoded" /\ encoded.err = "nil"
    /\ \E r \in {ParseURI(encoded.uri)} :
           /\ pc' = IF r.panic THEN "panic" ELSE "reparsed"
           /\ reparsed' = IF r.panic THEN None ELSE [key |-> r.key, err |-> r.err]
    /\ UNCHANGED <<uri, parsed, encoded, call, ret, salt, shared, local>>

Next == CallParseURI \/ CallURI \/ CallParseURIAgain

Spec == Init /\ [][Next]_vars

(***************************************************************************)
(* SpecURI: key.URI() on a Key the caller has built, then ParseURI on the  *)
(* text it produced.  crypto.MD5 ("MD5") stands for the crypto.Hash values *)
(* that algorithmsHashToString does not list.                              *)
(***************************************************************************)
Keys ==
    [Type      : {<<"totp">>, <<"hotp">>, <<>>, <<"example">>},
     Label     : {<<"alice">>, <<>>, <<"a", "?", "b">>,
                  <<"a", "?", "digits", "=", "8", "&", "b">>,
                  <<"a", "#", "b">>, <<"a", "%">>},
     Secret    : {<<>>, <<72, 101, 108, 108, 111>>},
     Issuer    : {<<>>, <<"Example">>, <<"ACME", " ", "Co">>},
     Algorithm : {"0", "SHA1", "SHA256", "SHA512", "MD5"},
     Digits    : {0, 6, 8},
     Counter   : {0, 12, -3},
     Period    : {0, 30, 60, -5}]

\* Calls that compute a code with the options of a key: HOTP(key.Secret,
\* key.Counter, key.HOTPOptions()) and TOTP(key.Secret, t, key.TOTPOptions())
\* at the time t, for the keys of one label and issuer whose algorithm
\* algorithmsHashToString lists.
CodeKeys ==
    {k \in Keys : /\ k.Label = <<"alice">> /\ k.Issuer = <<>>
                  /\ k.Type \in {<<TypeTOTP>>, <<TypeHOTP>>}
                  /\ k.Algorithm # "MD5"}

CodeCalls == {[fn |-> f, key |-> k, t |-> 59] : f \in {"HOTP", "TOTP"}, k \in CodeKeys}

InitURI ==
    /\ pc = "start"
    /\ call \in {[fn |-> "URI", key |-> k] : k \in Keys} \cup CodeCalls
    /\ encoded = None /\ reparsed = None
    /\ uri = None /\ parsed = None /\ ret = None /\ salt = 0
    /\ tables = packageVars /\ secret = None /\ local = None

\* text, err := key.URI()
CallKeyURI ==
    /\ pc = "start" /\ call.fn = "URI"
    /\ pc' = "encoded"
    /\ encoded' = URI(call.key)
    /\ UNCHANGED <<call, uri, parsed, reparsed, ret, salt, shared, local>>

\* HOTP(key.Secret, key.Counter, key.HOTPOptions())
CallKeyHOTP ==
    /\ pc = "start" /\ call.fn = "HOTP"
    /\ Finish(HOTP(call.key.Secret, call.key.Counter, KeyHOTPOptions(call.key), salt))

\* TOTP(key.Secret, t, key.TOTPOptions())
CallKeyTOTP ==
    /\ pc = "start" /\ call.fn = "TOTP"
    /\ Finish(TOTP(call.key.Secret, call.t, KeyTOTPOptions(call.key), salt))

NextURI == CallKeyURI \/ CallParseURIAgain \/ CallKeyHOTP \/ CallKeyTOTP

SpecURI == InitURI /\ [][NextURI]_vars

(***************************************************************************)
(* SpecShared: NumThreads goroutines, each running one call of HOTP, TOTP, *)
(* ParseURI or Key.URI, all on the same secret (the slice handed to HOTP   *)
(* and TOTP and held by the keys) and on the package's tables.  A call is  *)
(* one step per stretch of code that reads what the calls share: HOTP and  *)
(* TOTP read the secret's bytes (hmac.New); ParseURI parses the text, then *)
(* reads algorithmsStringToHash; Key.URI reads the secret's bytes          *)
(* (EncodeToString), then algorithmsHashToString.  pc, call, ret and local *)
(* hold one value per goroutine.  No statement of the package writes to    *)
(* the tables or through the secret slice, so no step changes them.        *)
(***************************************************************************)
NumThreads == 2

Threads == 1..NumThreads

SharedSecrets == {hotpSecret, <<72, 101, 108, 108, 111>>}

\* "otpauth://totp/alice?secret=JBSWY3DP" without an algorithm, with
\* algorithm=SHA256 and with algorithm=example.
SharedURIs == {URIText([i \in 1..Len(Options) |-> IF i = 6 THEN a ELSE 1]) :
                  a \in {1, 3, 5}}

\* Keys whose Secret is the shared slice (the field is filled in from the
\* variable secret when the call reads it).
SharedKeys ==
    {[ZeroKey EXCEPT !.Type = <<ty>>, !.Label = <<"alice">>, !.Algorithm = a] :
        ty \in {TypeTOTP}, a \in {"0", "SHA512", "MD5"}}
    \cup {[ZeroKey EXCEPT !.Type = <<"example">>]}

SharedCalls ==
    {[fn |-> "HOTP", counter |-> c, opts |-> o] :
        c \in {0, 1}, o \in {HOTPOptions(0, "nil"), HOTPOptions(8, "SHA256")}}
    \cup {[fn |-> "TOTP", t |-> 59,
           opts |-> TOTPOptions(HOTPOptions(0, "nil"), 0, 0, 0)]}
    \cup {[fn |-> "ParseURI", uri |-> u] : u \in SharedURIs}
    \cup {[fn |-> "URI", key |-> k] : k \in SharedKeys}

InitShared ==
    /\ pc = [t \in Threads |-> "start"]
    /\ call \in [Threads -> SharedCalls]
    /\ ret = [t \in Threads |-> None]
    /\ local = [t \in Threads |-> None]
    /\ tables = packageVars
    /\ secret \in SharedSecrets
    /\ salt = 0
    /\ uri = None /\ parsed = None /\ encoded = None /\ reparsed = None

\* The end of the call of goroutine t with the result r.
Return(t, r) ==
    /\ pc' = [pc EXCEPT ![t] = IF r.panic THEN "panic" ELSE "done"]
    /\ ret' = [ret EXCEPT ![t] = r]

\* HOTP that clears the secret's bytes once the code is computed.
ThreadHOTPWiping(t) ==
    /\ pc[t] = "start" /\ call[t].fn = "HOTP"
    /\ Return(t, HOTP(secret, call[t].counter, call[t].opts, salt))
    /\ secret' = [i \in DOMAIN secret |-> 0]
    /\ UNCHANGED <<call, salt, uri, parsed, encoded, reparsed, tables, local>>

\* HOTP(secret, counter, opts): hmac.New reads the bytes of the secret.
ThreadHOTP(t) ==
    /\ pc[t] = "start" /\ call[t].fn = "HOTP"
    /\ Return(t, HOTP(secret, call[t].counter, call[t].opts, salt))
    /\ UNCHANGED <<call, salt, uri, parsed, encoded, reparsed, shared, local>>

\* TOTP(secret, t, opts)
ThreadTOTP(t) ==
    /\ pc[t] = "start" /\ call[t].fn = "TOTP"
    /\ Return(t, TOTP(secret, call[t].t, call[t].opts, salt))
    /\ UNCHANGED <<call, salt, uri, parsed, encoded, reparsed, shared, local>>

\* ParseURI, "parsed, err := url.Parse(uri)": nothing shared is read.
ThreadParse(t) ==
    /\ pc[t] = "start" /\ call[t].fn = "ParseURI"
    /\ pc' = [pc EXCEPT ![t] = "parsed"]
    /\ local' = [local EXCEPT ![t] = urlParse(call[t].uri)]
    /\ UNCHANGED <<call, ret, salt, uri, parsed, encoded, reparsed, shared>>

\* ParseURI from "// scheme validation" on, which reads
\* algorithmsStringToHash.
ThreadParseKey(t) ==
    /\ pc[t] = "parsed"
    /\ Return(t, parseParsed(local[t]))
    /\ UNCHANGED <<call, salt, uri, parsed, encoded, reparsed, shared, local>>

\* Key.URI up to "params.Set(queryKeySecret, secret)": the type is tested
\* and the bytes of key.Secret are read.
ThreadURISecret(t) ==
    /\ pc[t] = "start" /\ call[t].fn = "URI"
    /\ \E key \in {[call[t].key EXCEPT !.Secret = secret]} :
           IF URI(key).err \in {"ErrInvalidType", "ErrMissingSecret"}
           THEN /\ pc' = [pc EXCEPT ![t] = "done"]
                /\ ret' = [ret EXCEPT ![t] = URI(key)]
                /\ UNCHANGED local
           ELSE /\ pc' = [pc EXCEPT ![t] = "encoding"]
                /\ local' = [local EXCEPT ![t] = key]
                /\ UNCHANGED ret
    /\ UNCHANGED <<call, salt, uri, parsed, encoded, reparsed, shared>>

\* Key.URI from "if key.Issuer" on, which reads algorithmsHashToString.
ThreadURILookup(t) ==
    /\ pc[t] = "encoding"
    /\ pc' = [pc EXCEPT ![t] = "done"]
    /\ ret' = [ret EXCEPT ![t] = URI(local[t])]
    /\ UNCHANGED <<call, salt, uri, parsed, encoded, reparsed, shared, local>>

NextShared ==
    \E t \in Threads :
        \/ ThreadHOTP(t)
        \/ ThreadTOTP(t)
        \/ ThreadParse(t)
        \/ ThreadParseKey(t)
        \/ ThreadURISecret(t)
        \/ ThreadURILookup(t)

SpecShared == InitShared /\ [][NextShared]_vars

(***************************************************************************)
(* Properties of HOTP, TOTP and timePeriodCount (specification SpecOTP).   *)
(***************************************************************************)
\* The period TOTP works with: 30 when the option is 0.
EffectivePeriod == IF call.opts.Period = 0 THEN DefaultPeriod ELSE call.opts.Period

\* C3: time-period shift law.  For every time t (before, at or after the
\* reference), every reference, every period > 0 and every step s,
\* timePeriodCount(t + s*period, ref, period) = timePeriodCount(t, ref, period) + s.
C3_ShiftLaw ==
    (pc = "done" /\ call.fn = "timePeriodCount") =>
        \A s \in Steps :
            timePeriodCount(call.t + s * call.opts.Period,
                            call.opts.TimeReference, call.opts.Period)
            = ret.T + s

\* C4: step equivalence.  TOTP at time t with step s hands HOTP the same
\* counter, and returns the same code, as TOTP at time t + s*period with
\* step 0 (same secret, period, reference and HOTP options).
C4_StepEquivalence ==
    (pc = "done" /\ call.fn = "TOTP") =>
        \E shifted \in {TOTP(call.key, call.t + call.opts.Step * EffectivePeriod,
                             [call.opts EXCEPT !.Step = 0], salt)} :
            /\ ~shifted.panic
            /\ shifted.counter = ret.counter
            /\ shifted.code = ret.code

\* code < 10^d, for a code below 2^31 (every power of ten from the tenth on
\* is above 2^31).
Below10Pow(code, d) == d >= 10 \/ code < 10 ^ d

\* C5: modulus correctness.  The code HOTP returns is strictly less than
\* 10^digits, and strictly less than 1,000,000 when digits = 0.
C5_CodeBelowModulus ==
    (pc = "done" /\ call.fn = "HOTP") =>
        /\ Below10Pow(ret.code, IF call.opts.HOTPOptions.Digits = 0
                                THEN 6 ELSE call.opts.HOTPOptions.Digits)
        /\ call.opts.HOTPOptions.Digits = 0 => ret.code < 1000000

\* A call of HOTP with digits = 0 that returned a code of six digits.
C5_Witness ==
    /\ pc = "done" /\ call.fn = "HOTP"
    /\ call.opts.HOTPOptions.Digits = 0
    /\ ret.code >= 100000

\* C6: HOTP and TOTP have no failure path.  Whatever the secret, the counter
\* or time, the period and the digits, the call returns and never aborts.
C6_NeverAborts == call.fn \in {"HOTP", "TOTP"} => pc # "panic"

(***************************************************************************)
(* Properties of ParseURI and Key.URI (specification Spec).                *)
(***************************************************************************)
Returned == pc \in {"parsed", "encoded", "reparsed"}

\* C1: round trip.  For every Key k that a successful ParseURI returned
\* with digits 6, k.URI() succeeds, and ParseURI(k.URI()) succeeds and
\* returns a Key equal to k in every field.
C1_RoundTrip ==
    /\ (pc = "encoded" /\ parsed.key.Digits = 6) => encoded.err = "nil"
    /\ (pc = "reparsed" /\ parsed.key.Digits = 6) =>
           reparsed.err = "nil" /\ reparsed.key = parsed.key

\* The checks of ParseURI on a parsed URL u with query q, in the order
\* scheme, type, secret missing or empty, base32 decoding, algorithm,
\* digits, then counter for hotp or period for totp: the error of the first
\* check that u and q violate, "nil" when they violate none.
EarliestFieldError(u, q) ==
    IF u.Scheme # <<"otpauth">> THEN "ErrInvalidScheme"
    ELSE IF u.Host # <<"totp">> /\ u.Host # <<"hotp">> THEN "ErrInvalidType"
    ELSE IF ~Has(q, "secret") \/ Get(q, "secret") = <<>> THEN "ErrMissingSecret"
    ELSE IF DecodeString(Get(q, "secret")).err # "nil" THEN "CorruptInputError"
    ELSE IF /\ Has(q, "algorithm")
            /\ Get(q, "algorithm") \notin {<<"SHA1">>, <<"SHA256">>, <<"SHA512">>}
    THEN "ErrInvalidAlgorithm"
    ELSE IF Has(q, "digits") /\ ParseUint(Get(q, "digits")).err # "nil"
    THEN "NumError"
    ELSE IF u.Host = <<"hotp">> /\ ~Has(q, "counter") THEN "ErrMissingCounter"
    ELSE IF u.Host = <<"hotp">> /\ ParseInt(Get(q, "counter")).err # "nil"
    THEN "NumError"
    ELSE IF /\ u.Host = <<"totp">> /\ Has(q, "period")
            /\ ParseInt(Get(q, "period")).err # "nil"
    THEN "NumError"
    ELSE "nil"

\* The same for a URI text, URI syntax being the first check.
EarliestError(rawURI) ==
    IF urlParse(rawURI).err # "nil" THEN "url.Error"
    ELSE EarliestFieldError(urlParse(rawURI), parseQuery(urlParse(rawURI).RawQuery))

\* C2: ParseURI checks in a fixed order and, for a URI that violates one
\* check or several at once, returns the error of the earliest violated
\* check (and no error for a URI that violates none).
C2_EarliestError ==
    /\ pc # "panic"
    /\ Returned => parsed.err = EarliestError(uri)

\* C7: decode is atomic.  Whenever ParseURI returns an error, the Key it
\* returns with it is the zero Key.
C7_ZeroKeyOnError == (Returned /\ parsed.err # "nil") => parsed.key = ZeroKey

\* The URI has the scheme otpauth, the type totp or hotp, and a secret
\* parameter that is absent or empty.
LacksSecret(u, q) ==
    /\ u.err = "nil" /\ u.Scheme = <<"otpauth">>
    /\ u.Host \in {<<"totp">>, <<"hotp">>}
    /\ (~Has(q, "secret") \/ Get(q, "secret") = <<>>)

\* C8: for every URI with scheme otpauth and type totp or hotp whose secret
\* parameter is absent or empty, ParseURI returns MissingSecret.
C8_MissingSecret ==
    (pc # "start" /\ LacksSecret(urlParse(uri), parseQuery(urlParse(uri).RawQuery))) =>
        (pc = "parsed" /\ parsed.err = "ErrMissingSecret")

\* A hotp URI that passes every check before the counter's.
HotpUpToCounter(u, q) ==
    /\ u.err = "nil" /\ u.Scheme = <<"otpauth">> /\ u.Host = <<"hotp">>
    /\ Has(q, "secret") /\ Get(q, "secret") # <<>>
    /\ DecodeString(Get(q, "secret")).err = "nil"
    /\ Has(q, "algorithm") =>
           Get(q, "algorithm") \in {<<"SHA1">>, <<"SHA256">>, <<"SHA512">>}
    /\ Has(q, "digits") => ParseUint(Get(q, "digits")).err = "nil"

\* What C9 says of the result for a query q.
CounterRule(q) ==
    /\ ~Has(q, "counter") => parsed.err = "ErrMissingCounter"
    /\ (Has(q, "counter") /\ ParseInt(Get(q, "counter")).err # "nil") =>
           parsed.err = "NumError"
    /\ parsed.err = "nil" =>
           /\ Has(q, "counter")
           /\ ParseInt(Get(q, "counter")).err = "nil"
           /\ parsed.key.Counter = ParseInt(Get(q, "counter")).v

\* C9: for a hotp URI that passes all earlier checks, ParseURI returns
\* MissingCounter when the counter is absent, an integer syntax error when
\* it does not parse, and otherwise a Key with the counter written in the URI.
C9_HotpCounter ==
    (pc # "start"
     /\ HotpUpToCounter(urlParse(uri), parseQuery(urlParse(uri).RawQuery))) =>
        IF pc = "panic" THEN FALSE
        ELSE CounterRule(parseQuery(urlParse(uri).RawQuery))

\* What C10 says of a Key returned for a query q.
DefaultsRule(key, q) ==
    /\ ~Has(q, "algorithm") => key.Algorithm = "SHA1"
    /\ Has(q, "algorithm") => <<key.Algorithm>> = Get(q, "algorithm")
    /\ ~Has(q, "digits") => key.Digits = 6
    /\ Has(q, "digits") => key.Digits = DecimalValue(Get(q, "digits"), 0)
    /\ (key.Type = <<"totp">> /\ ~Has(q, "period")) => key.Period = 30
    /\ (key.Type = <<"totp">> /\ Has(q, "period")) =>
           key.Period = ParseInt(Get(q, "period")).v

\* C10: decode defaulting.  In a Key that ParseURI returned without error,
\* algorithm is SHA-1, digits 6 and (for totp) period 30 when the parameter
\* is absent, and the parsed value when it is present.
C10_DecodeDefaults ==
    (Returned /\ parsed.err = "nil") =>
        DefaultsRule(parsed.key, parseQuery(urlParse(uri).RawQuery))

\* ParseURI returned a totp Key for a URI that names neither algorithm nor
\* digits nor period.
C10_Witness ==
    /\ pc = "parsed" /\ parsed.err = "nil"
    /\ parsed.key.Type = <<"totp">>
    /\ \A k \in {"algorithm", "digits", "period"} :
           ~Has(parseQuery(urlParse(uri).RawQuery), k)

\* What C11 says of the result for a URL u with query q.
TypeGatedRule(u, q) ==
    /\ (u.Host = <<"totp">> /\ Has(q, "counter")) =>
           /\ parsed.key.Counter = 0
           /\ EarliestFieldError(u, q) = "nil" => parsed.err = "nil"
    /\ (u.Host = <<"hotp">> /\ Has(q, "period")) =>
           /\ parsed.key.Period = 0
           /\ EarliestFieldError(u, q) = "nil" => parsed.err = "nil"

\* C11: type-gated fields.  A counter parameter in a totp URI is ignored
\* (the Key has counter 0 whatever its value, even unparsable), a period
\* parameter in a hotp URI is ignored (the Key has period 0), and neither
\* causes a decode error: ParseURI succeeds when every other check passes.
C11_TypeGated ==
    (Returned /\ urlParse(uri).err = "nil") =>
        TypeGatedRule(urlParse(uri), parseQuery(urlParse(uri).RawQuery))

\* ParseURI returned a totp Key for a URI whose counter does not parse.
C11_Witness ==
    /\ pc = "parsed" /\ parsed.err = "nil"
    /\ parsed.key.Type = <<"totp">>
    /\ Has(parseQuery(urlParse(uri).RawQuery), "counter")
    /\ ParseInt(Get(parseQuery(urlParse(uri).RawQuery), "counter")).err # "nil"

(***************************************************************************)
(* Properties of Key.URI on any Key (specification SpecURI).               *)
(***************************************************************************)
Encoded == pc \in {"encoded", "reparsed"}

\* The last position of tok in s, 0 when there is none.
LastIndex(s, tok) ==
    IF \E i \in 1..Len(s) : s[i] = tok
    THEN CHOOSE i \in 1..Len(s) : s[i] = tok /\ \A j \in (i + 1)..Len(s) : s[j] # tok
    ELSE 0

\* The query parameters Key.URI has written: the pairs of the text after
\* the "?" that follows the label (an escaped query holds no "?").
Emitted(text) == parseQuery(SubSeq(text, LastIndex(text, "?") + 1, Len(text)))

\* The error C12 names for a key: type, then secret, then algorithm.
URIError(key) ==
    IF key.Type # <<"hotp">> /\ key.Type # <<"totp">> THEN "ErrInvalidType"
    ELSE IF key.Secret = <<>> THEN "ErrMissingSecret"
    ELSE IF key.Algorithm \notin {"0", "SHA1", "SHA256", "SHA512"}
    THEN "ErrInvalidAlgorithm"
    ELSE "nil"

\* C12: Key.URI() fails with InvalidType, MissingSecret or InvalidAlgorithm,
\* tested in the order type, secret, algorithm; on every error the string
\* returned is empty; a key with the zero algorithm serializes without
\* error as algorithm=SHA1.
C12_URIErrors ==
    Encoded =>
        /\ encoded.err = URIError(call.key)
        /\ encoded.err # "nil" => encoded.uri = <<>>
        /\ (encoded.err = "nil" /\ call.key.Algorithm = "0") =>
               Get(Emitted(encoded.uri), "algorithm") = <<"SHA1">>

\* Key.URI() returned InvalidType for a key with an unknown type and an
\* empty secret.
C12_Witness ==
    /\ pc = "encoded" /\ encoded.err = "ErrInvalidType"
    /\ call.key.Type = <<"example">> /\ call.key.Secret = <<>>

\* C13: for every key that Key.URI() serializes, whatever its digits, the
\* output has an issuer parameter if and only if key.Issuer is non-empty.
C13_IssuerIffSet ==
    (Encoded /\ encoded.err = "nil") =>
        (Has(Emitted(encoded.uri), "issuer") <=> call.key.Issuer # <<>>)

\* What C14 says of the parameters q written for a key.
EmittedRule(key, q) ==
    /\ Has(q, "secret") /\ Has(q, "algorithm")
    /\ key.Type = <<"hotp">> =>
           /\ Has(q, "counter")
           /\ ParseInt(Get(q, "counter")).err = "nil"
           /\ ParseInt(Get(q, "counter")).v = key.Counter
           /\ ~Has(q, "period")
    /\ key.Type = <<"totp">> =>
           /\ Has(q, "period") <=> key.Period # 0
           /\ ~Has(q, "counter")

\* C14: the output of Key.URI() always has secret and algorithm; for hotp
\* it has counter, equal to key.Counter (also when 0), and never period;
\* for totp it has period exactly when key.Period is not 0, and never
\* counter.
C14_EmittedParams ==
    (Encoded /\ encoded.err = "nil") => EmittedRule(call.key, Emitted(encoded.uri))

\* Key.URI() serialized a hotp key whose counter is 0.
C14_Witness ==
    /\ pc = "encoded" /\ encoded.err = "nil"
    /\ call.key.Type = <<"hotp">> /\ call.key.Counter = 0

\* C15: Key.URI() never writes a digits parameter; consequently, for a key
\* whose digits is not 6, ParseURI(k.URI()) returns a key with digits 6.
C15_DigitsDropped ==
    /\ (Encoded /\ encoded.err = "nil") => ~Has(Emitted(encoded.uri), "digits")
    /\ (pc = "reparsed" /\ reparsed.err = "nil" /\ call.key.Digits # 6) =>
           reparsed.key.Digits = 6

(***************************************************************************)
(* More properties of ParseURI (Spec) and timePeriodCount (SpecOTP).       *)
(***************************************************************************)
\* C16: after every successful ParseURI the Key is fully resolved: its
\* algorithm is SHA-1, SHA-256 or SHA-512 (never the zero selector) and its
\* digits is at least 1 (never the 0 that stands for the default), also for
\* a URI that writes digits=0.
C16_Resolved ==
    (Returned /\ parsed.err = "nil") =>
        /\ parsed.key.Algorithm \in {"SHA1", "SHA256", "SHA512"}
        /\ parsed.key.Digits >= 1

\* C17: round-down before the reference.  For every time t strictly before
\* t0 and every period > 0, timePeriodCount(t, t0, period) is the floor of
\* (t - t0) / period, also when t - t0 is an exact multiple of the period.
C17_FloorBeforeReference ==
    (pc = "done" /\ call.fn = "timePeriodCount"
     /\ call.t < call.opts.TimeReference) =>
        ret.T = (call.t - call.opts.TimeReference) \div call.opts.Period

\* The call timePeriodCount(-1, 0, 30).
BoundaryCall ==
    /\ call.fn = "timePeriodCount" /\ call.t = -1
    /\ call.opts.TimeReference = 0 /\ call.opts.Period = 30

\* C18: negative-time boundary.  timePeriodCount(-1, 0, 30) is -1, not 0.
C18_NegativeBoundary == (pc = "done" /\ BoundaryCall) => ret.T = -1

\* timePeriodCount(-1, 0, 30) has returned.
C18_Witness == pc = "done" /\ BoundaryCall

\* q is the floor of d / x for an int64 d: q * x <= d < (q + 1) * x.
IsFloor64(q, d, x) ==
    /\ ~Less64(d, MulAdd64(Int64(q), x, 0))
    /\ Less64(d, MulAdd64(Int64(q + 1), x, 0))

\* C19: for every time t at or after the reference t0 and every period > 0,
\* timePeriodCount(t, t0, period) is the floor of (t - t0) / period; with
\* t0 = 0 and period = 30 the RFC 6238 times 59, 1111111109, 1111111111,
\* 1234567890, 2000000000 and 20000000000 give 0x1, 0x23523EC, 0x23523ED,
\* 0x273EF07, 0x3F940AA and 0x27BC86AA.
C19_FloorFromReference ==
    /\ (pc = "done" /\ call.fn = "timePeriodCount"
        /\ call.t >= call.opts.TimeReference) =>
           ret.T = (call.t - call.opts.TimeReference) \div call.opts.Period
    /\ (pc = "done" /\ call.fn = "timePeriodCount64"
        /\ ~Less64(call.t, Int64(call.opts.TimeReference))) =>
           /\ IsFloor64(ret.T, Sub64(call.t, Int64(call.opts.TimeReference)),
                        call.opts.Period)
           /\ (call.opts.TimeReference = 0 /\ call.opts.Period = 30) =>
                  \A i \in 1..Len(rfcTimes) : call.t = rfcTimes[i] => ret.T = rfcT[i]

\* timePeriodCount(20000000000, 0, 30) has returned.
C19_Witness ==
    /\ pc = "done" /\ call.fn = "timePeriodCount64"
    /\ call.t = rfcTimes[6]
    /\ call.opts.TimeReference = 0 /\ call.opts.Period = 30

\* The test values of hotpTestValues (RFC 4226, appendix D): the truncated
\* 31-bit values and the expected codes for the counters 0..9.
rfcTruncated == <<1284755224, 1094287082, 137359152, 1726969429, 1640338314,
                  868254676, 1918287922, 82162583, 673399871, 645520489>>

rfcOTP == <<755224, 287082, 359152, 969429, 338314,
            254676, 287922, 162583, 399871, 520489>>

RfcCall ==
    /\ call.fn = "HOTP" /\ call.key = hotpSecret /\ call.counter \in 0..9
    /\ call.opts.HOTPOptions = HOTPOptions(0, "nil")

\* C20: HOTP with the secret "12345678901234567890", default options and the
\* counters 0..9 returns 755224, 287082, 359152, 969429, 338314, 254676,
\* 287922, 162583, 399871 and 520489, each of them the RFC's truncated
\* 31-bit value modulo 10^6.
C20_KnownAnswers ==
    (pc \in {"done", "panic"} /\ RfcCall) =>
        /\ pc = "done"
        /\ ret.code = rfcOTP[call.counter + 1]
        /\ ret.code = rfcTruncated[call.counter + 1] % 1000000

\* HOTP("12345678901234567890", 9, HOTPOptions{}) has returned.
C20_Witness == pc = "done" /\ RfcCall /\ call.counter = 9 /\ ret.code = 520489

(***************************************************************************)
(* Defaults of HOTP and TOTP (SpecOTP).                                    *)
(***************************************************************************)
\* What a finished call of HOTP or TOTP produced, in the shape of HOTP's
\* result.
Outcome == [panic |-> pc = "panic", counter |-> ret.counter, code |-> ret.code]

\* C21: for every secret and counter, HOTP with empty options (digits 0,
\* algorithm unset) returns the code that HOTP returns with digits 6 and
\* SHA-1 given explicitly, and no call changes the options record of its
\* caller.
C21_HOTPDefaults ==
    /\ []((pc \in {"done", "panic"} /\ call.fn = "HOTP"
           /\ call.opts.HOTPOptions = HOTPOptions(0, "nil")) =>
              /\ pc = "done"
              /\ Outcome = HOTP(call.key, call.counter,
                                HOTPOptions(DefaultDigits, "SHA1"), salt))
    /\ [][call'.opts = call.opts]_vars

\* HOTP(secret, 3, HOTPOptions{}) has returned, for a secret that is not the
\* RFC's.
C21_Witness ==
    /\ pc = "done" /\ call.fn = "HOTP" /\ call.key = <<>> /\ call.counter = 3
    /\ call.opts.HOTPOptions = HOTPOptions(0, "nil")

\* C22: for every secret, time and HOTP options, TOTP with period 0 returns
\* what TOTP returns with period 30; a time reference and a step left unset
\* are 0; and in every case the result is that of HOTP(secret,
\* timePeriodCount(t, reference, period) + step, the embedded HOTP options).
C22_TOTPDefaults ==
    (pc \in {"done", "panic"} /\ call.fn = "TOTP") =>
        /\ Outcome = HOTP(call.key,
                          timePeriodCount(call.t, call.opts.TimeReference,
                                          EffectivePeriod) + call.opts.Step,
                          call.opts.HOTPOptions, salt)
        /\ call.opts.Period = 0 =>
               Outcome = TOTP(call.key, call.t,
                              [call.opts EXCEPT !.Period = 30], salt)

\* TOTP has returned for a time past the first period, with period,
\* reference and step all left at 0.
C22_Witness ==
    /\ pc = "done" /\ call.fn = "TOTP" /\ call.t = 45
    /\ call.opts.Period = 0 /\ call.opts.TimeReference = 0 /\ call.opts.Step = 0

(***************************************************************************)
(* Labels, aborts and periods of the Key URI codec (Spec, SpecURI).        *)
(***************************************************************************)
\* C24: ParseURI returns a Key or an error for every input, without
\* aborting, also for an otpauth URI of a valid type with an empty path; the
\* label of a Key it decodes is the path minus its leading separator.
C24_ParseURIReturns ==
    /\ pc # "panic"
    /\ (pc = "parsed" /\ parsed.err = "nil") =>
           parsed.key.Label = Tail(urlParse(uri).Path)

\* C25: for every key that Key.URI() serializes without error, also one
\* whose label holds '?', '#' or '%', ParseURI accepts the text and decodes
\* the label the key had.
C25_LabelRoundTrip ==
    /\ call.fn = "URI" => pc # "panic"
    /\ (Encoded /\ encoded.err = "nil" /\ pc = "reparsed") =>
           /\ reparsed.err = "nil"
           /\ reparsed.key.Label = call.key.Label

(***************************************************************************)
(* Truncation, large digits and monotonicity (SpecOTP).                    *)
(***************************************************************************)
\* The offset dynamicTruncation reads at, for the digest of the call.
Offset == call.key[Len(call.key)] % 16

\* C26: for every digest of 20, 32 or 64 bytes the offset is the low 4 bits
\* of the last byte, the bytes at offset..offset+3 lie inside the digest, and
\* the result is those four bytes as a big-endian 32-bit integer with the
\* top bit cleared, a value in 0..2^31-1; the ten RFC 4226 digests give the
\* published truncated values.
C26_DynamicTruncation ==
    (pc \in {"done", "panic"} /\ call.fn = "dynamicTruncation") =>
        /\ pc = "done"
        /\ Len(call.key) \in {20, 32, 64}
        /\ Offset + 4 <= Len(call.key)
        /\ ret.code \in 0..2147483647
        /\ ret.code \div 16777216 = call.key[Offset + 1] % 128
        /\ (ret.code \div 65536) % 256 = call.key[Offset + 2]
        /\ (ret.code \div 256) % 256 = call.key[Offset + 3]
        /\ ret.code % 256 = call.key[Offset + 4]
        /\ \A i \in 1..Len(IntermediateHmacSha1) :
               call.key = IntermediateHmacSha1[i] => ret.code = rfcTruncated[i]

\* dynamicTruncation has returned 2^31-1 for the 20-byte digest of 0xff
\* bytes: offset 15, the last four bytes read, the top bit cleared.
C26_Witness ==
    /\ pc = "done" /\ call.fn = "dynamicTruncation"
    /\ Len(call.key) = 20 /\ Offset = 15 /\ ret.code = 2147483647

\* The algorithm HOTP works with for the options of the call.
EffectiveAlgorithm ==
    IF call.opts.HOTPOptions.Algorithm = "nil" THEN "SHA1"
    ELSE call.opts.HOTPOptions.Algorithm

\* C27: for every digits value of 10 or more, HOTP returns the dynamically
\* truncated 31-bit value unchanged (10^digits, computed in the wrapping
\* unsigned word, exceeds every 31-bit value).
C27_LargeDigits ==
    (pc \in {"done", "panic"} /\ call.fn = "HOTP"
     /\ call.opts.HOTPOptions.Digits >= 10) =>
        /\ pc = "done"
        /\ ret.code = dynamicTruncation(hmacShaN(EffectiveAlgorithm, call.key,
                                                 call.counter, salt)).value

\* C28: the time-period counter is monotone in time: for every reference,
\* every period > 0 and times t1 <= t2 on either side of the reference,
\* timePeriodCount(t1) <= timePeriodCount(t2), and from one second to the
\* next the counter moves by one step at most.
C28_Monotone ==
    (pc = "done" /\ call.fn = "timePeriodCount") =>
        /\ \A t2 \in Times :
               call.t <= t2 =>
                   ret.T <= timePeriodCount(t2, call.opts.TimeReference,
                                            call.opts.Period)
        /\ timePeriodCount(call.t + 1, call.opts.TimeReference, call.opts.Period)
               - ret.T \in {0, 1}

\* C30: every Key of type totp that ParseURI returns without error carries
\* a positive period (period=0 and negative periods are not decoded into a
\* Key), so a decoded period comes back unchanged from Key.URI() followed by
\* ParseURI.
C30_PositivePeriod ==
    /\ (Returned /\ parsed.err = "nil" /\ parsed.key.Type = <<TypeTOTP>>) =>
           parsed.key.Period > 0
    /\ (pc = "reparsed" /\ parsed.key.Type = <<TypeTOTP>>
        /\ reparsed.err = "nil") =>
           reparsed.key.Period = parsed.key.Period

\* C29: a Key whose algorithm is the zero selector is SHA-1 throughout:
\* Key.URI() writes algorithm=SHA1 for it, and HOTP with the options of
\* Key.HOTPOptions() (TOTP with those of Key.TOTPOptions()) computes the
\* SHA-1 code of the key and returns it.
C29_ZeroAlgorithmIsSHA1 ==
    /\ (Encoded /\ encoded.err = "nil" /\ call.key.Algorithm = "0") =>
           Get(Emitted(encoded.uri), "algorithm") = <<"SHA1">>
    /\ (pc \in {"done", "panic"} /\ call.fn = "HOTP"
        /\ call.key.Algorithm = "0") =>
           /\ pc = "done"
           /\ Outcome = HOTP(call.key.Secret, call.key.Counter,
                             HOTPOptions(call.key.Digits, "SHA1"), salt)
    /\ (pc \in {"done", "panic"} /\ call.fn = "TOTP"
        /\ call.key.Algorithm = "0") =>
           /\ pc = "done"
           /\ Outcome = TOTP(call.key.Secret, call.t,
                             TOTPOptions(HOTPOptions(call.key.Digits, "SHA1"),
                                         0, call.key.Period, 0), salt)

(***************************************************************************)
(* Concurrent calls (SpecShared).                                          *)
(***************************************************************************)
\* What the call c returns when it runs by itself on the shared state as it
\* is.
Alone(c) ==
    CASE c.fn = "HOTP"     -> HOTP(secret, c.counter, c.opts, salt)
      [] c.fn = "TOTP"     -> TOTP(secret, c.t, c.opts, salt)
      [] c.fn = "ParseURI" -> ParseURI(c.uri)
      [] c.fn = "URI"      -> URI([c.key EXCEPT !.Secret = secret])

\* C23: no operation (HOTP, TOTP, ParseURI, Key.URI) writes shared state:
\* no step changes the lookup tables or the bytes of the caller's secret,
\* and so, however the steps of concurrent calls interleave, each call
\* returns what it returns when it runs alone.
C23_NoSharedWrites ==
    /\ [][tables' = tables /\ secret' = secret]_vars
    /\ [](\A t \in Threads :
             pc[t] \in {"done", "panic"} =>
                 /\ tables = packageVars
                 /\ ret[t] = Alone(call[t]))

\* Goroutine 2 has run a whole HOTP between the two steps of the Key.URI of
\* goroutine 1.
C23_Witness ==
    /\ DOMAIN pc = Threads
    /\ pc[1] = "encoding" /\ call[1].fn = "URI"
    /\ pc[2] = "done" /\ call[2].fn = "HOTP"

====
